---- MODULE Spec2Model ----
(***************************************************************************)
(* A model of the DOCX -> responsive HTML pipeline of                      *)
(*   src/libre_docx2html5.py   (output folder, archive, deletion thread)   *)
(*   src/app.py                (Flask variant, package_conversion)         *)
(*   src/libre-docx2html5.py   (Streamlit variant)                         *)
(*                                                                         *)
(* Text.  A Python str is modelled as a sequence of lexemes (TLA+ strings).*)
(* The lexemes are the units the code's patterns look for ("<img",         *)
(* "class=", the double quote, the space, the slash, the backslash, ...)   *)
(* and opaque words between them.  A regular expression of the code is an  *)
(* operator that, at a position of the sequence, answers the position      *)
(* where the leftmost match starting there ends (0: no match); re.sub is   *)
(* ReSub, which scans left to right over non-overlapping matches.          *)
(***************************************************************************)
EXTENDS Naturals, Sequences, FiniteSets, TLC

Q  == "\""
SP == " "
SL == "/"
BS == "\\"
GT == ">"
NL == "newline"

----------------------------------------------------------------------------
(* Generic string helpers (Python built-ins)                               *)

\* s.find(tok, i) on lexemes: least j >= i with s[j] = tok, 0 when none.
IndexFrom(s, tok, i) ==
  LET J == {j \in i..Len(s) : s[j] = tok}
  IN  IF J = {} THEN 0 ELSE CHOOSE j \in J : \A k \in J : j <= k

\* tok in s
Contains(s, tok) == \E i \in 1..Len(s) : s[i] = tok

\* s[i:j] with 1-based inclusive ends; empty when j < i
Slice(s, i, j) == IF j < i THEN <<>> ELSE SubSeq(s, i, j)

\* re.sub(pattern, repl, s): M(s, i) is the end of the match that starts at
\* i (0: none), R(s, i, e) the text that replaces s[i..e].
ReSub(M(_, _), R(_, _, _), s) ==
  LET starts == {j \in 1..Len(s) : M(s, j) > 0}
      f[i \in 1..(Len(s) + 1)] ==
        LET J == {j \in starts : j >= i}
        IN  IF J = {} THEN Slice(s, i, Len(s))
            ELSE LET j == CHOOSE a \in J : \A b \in J : a <= b
                     e == M(s, j)
                 IN  Slice(s, i, j - 1) \o R(s, j, e) \o f[e + 1]
  IN  f[1]

\* re.search(pattern, s): the start of the leftmost match, 0 when none.
ReSearch(M(_, _), s) ==
  LET J == {i \in 1..Len(s) : M(s, i) > 0}
  IN  IF J = {} THEN 0 ELSE CHOOSE i \in J : \A k \in J : i <= k

\* str.strip(): leading and trailing white space removed.
IsSpace(tok) == tok \in {SP, NL}
Strip(s) ==
  LET K == {i \in 1..Len(s) : ~IsSpace(s[i])}
  IN  IF K = {} THEN <<>>
      ELSE Slice(s, CHOOSE i \in K : \A k \in K : i <= k,
                    CHOOSE i \in K : \A k \in K : i >= k)

\* os.path.basename(p): what follows the last slash.
LastSlash(p) ==
  LET J == {j \in 1..Len(p) : p[j] = SL}
  IN  IF J = {} THEN 0 ELSE CHOOSE j \in J : \A k \in J : j >= k
Basename(p) == Slice(p, LastSlash(p) + 1, Len(p))
\* os.path.dirname(p): what precedes the last slash.
Dirname(p) == Slice(p, 1, LastSlash(p) - 1)
\* os.path.join(a, b)
Join(a, b) == IF a = <<>> THEN b ELSE a \o <<SL>> \o b
\* s.replace(old, new) for a one-lexeme old
Replace(s, old, new) ==
  LET M(t, i) == IF t[i] = old THEN i ELSE 0
      R(t, i, e) == new
  IN  ReSub(M, R, s)

\* s.replace(old1 + old2, new) for a two-lexeme old
Replace2(s, old1, old2, new) ==
  LET M(t, i) == IF t[i] = old1 /\ i + 1 <= Len(t) /\ t[i + 1] = old2 THEN i + 1 ELSE 0
      R(t, i, e) == new
  IN  ReSub(M, R, s)

----------------------------------------------------------------------------
(* Patterns of the code                                                    *)

\* key="[^"]+"  (nonEmpty)  or  key="[^"]*"
MatchAttr(key, nonEmpty, s, i) ==
  IF s[i] = key /\ i + 1 <= Len(s) /\ s[i + 1] = Q
  THEN LET k == IndexFrom(s, Q, i + 2)
       IN  IF k = 0 \/ (nonEmpty /\ k = i + 2) THEN 0 ELSE k
  ELSE 0

\* the group ( ... ) of a MatchAttr match that starts at i and ends at e
AttrGroup(s, i, e) == Slice(s, i + 2, e - 1)

\* <img[^>]+>
MatchImg(s, i) ==
  IF s[i] = "<img"
  THEN LET k == IndexFrom(s, GT, i + 1)
       IN  IF k = 0 \/ k = i + 1 THEN 0 ELSE k
  ELSE 0

\* <img   (the pattern of the three re.sub calls that insert an attribute)
MatchImgOpen(s, i) == IF s[i] = "<img" THEN i ELSE 0

----------------------------------------------------------------------------
(* Metadata extractor: extract_alt_text_from_docx                          *)

\* A <wp:docPr> element is [name |-> str, descr |-> str]; an attribute the
\* element lacks reads as '' (attrib.get(key, '')).  document.xml is the
\* sequence of its docPr elements in document order.  docs is what
\* root.findall yields; readable = FALSE: the archive or the XML part
\* cannot be opened or parsed (the except branch).
extract_alt_text_from_docx(readable, docs) ==
  LET f[n \in 0..Len(docs)] ==
        IF n = 0 THEN <<>>
        ELSE LET alt_text == Strip(docs[n].descr)
                 image_name == Strip(docs[n].name)
                 prev == f[n - 1]
             IN  IF alt_text # <<>> /\ image_name # <<>>
                 THEN [k \in (DOMAIN prev) \cup {image_name} |->
                         IF k = image_name THEN alt_text ELSE prev[k]]
                 ELSE prev
  IN  IF readable THEN f[Len(docs)] ELSE <<>>

----------------------------------------------------------------------------
(* Markup rewriter: optimize_html                                          *)

DefaultDescription == <<"Illustration", SP, "from", SP, "the", SP, "document">>

\* What str.lower() does to the lexemes the code compares after lowering.
Lower(tok) ==
  CASE tok \in {"Shape", "SHAPE", "sHaPe"} -> "shape"
    [] tok \in {".HTML", ".Html"} -> ".html"
    [] tok \in {"</BODY", "</Body"} -> "</body"
    [] OTHER -> tok

\* Lexemes that are not words (a word starts with an ASCII letter or digit).
Punctuation == {Q, SP, SL, BS, GT, NL, "=", ".", ",", ":"}

\* The marker that stands for re.error raised inside re.sub.
ReError == "re.error"

\* How re.sub expands a replacement template (sre_parse.parse_template): a
\* backslash before "n" is a newline, before a backslash one backslash,
\* before any other word a bad escape (re.error); before punctuation, and
\* at the end of the template, it stays.  The words of the model start with
\* a letter that is not one of the escape letters a b f r t v g.
ExpandTemplate(t) ==
  LET f[i \in 1..(Len(t) + 1)] ==
        IF i > Len(t) THEN <<>>
        ELSE IF t[i] # BS \/ i = Len(t) THEN <<t[i]>> \o f[i + 1]
        ELSE IF t[i + 1] = "n" THEN <<NL>> \o f[i + 2]
        ELSE IF t[i + 1] = BS THEN <<BS>> \o f[i + 2]
        ELSE IF t[i + 1] \notin Punctuation THEN <<ReError>>
        ELSE <<BS, t[i + 1]>> \o f[i + 2]
  IN  f[1]

\* image_name.lower().startswith("shape")
StartsWithShape(image_name) ==
  image_name # <<>> /\ Lower(image_name[1]) = "shape"

\* re.sub(r'class="([^"]+)"', lambda m: f'class="{m.group(1)} <cls>"', img_tag)
AppendClass(img_tag, cls) ==
  LET M(s, i) == MatchAttr("class=", TRUE, s, i)
      R(s, i, e) == <<"class=", Q>> \o AttrGroup(s, i, e) \o <<SP, cls, Q>>
  IN  ReSub(M, R, img_tag)

\* re.sub(r'<img', '<img class="<cls>"', img_tag)
InsertClass(img_tag, cls) ==
  LET R(s, i, e) == <<"<img", SP, "class=", Q, cls, Q>>
  IN  ReSub(MatchImgOpen, R, img_tag)

\* lines 123-128: the line-shape class
AddLineClass(img_tag) ==
  IF Contains(img_tag, "class=")
  THEN IF ~Contains(img_tag, "img-line") THEN AppendClass(img_tag, "img-line")
       ELSE img_tag
  ELSE InsertClass(img_tag, "img-line")

\* lines 137-141: the fluid-image class
AddFluidClass(img_tag) ==
  IF Contains(img_tag, "class=")
  THEN IF ~Contains(img_tag, "img-fluid") THEN AppendClass(img_tag, "img-fluid")
       ELSE img_tag
  ELSE InsertClass(img_tag, "img-fluid")

\* lines 116-132: the description chosen for a tag
ImageDescription(img_tag, alt_texts) ==
  LET MN(s, i) == MatchAttr("name=", TRUE, s, i)
      MS(s, i) == MatchAttr("src=", TRUE, s, i)
      name_match == ReSearch(MN, img_tag)
      src_match == ReSearch(MS, img_tag)
  IN  IF name_match > 0
      THEN LET image_name == AttrGroup(img_tag, name_match, MN(img_tag, name_match))
           IN  IF image_name \in DOMAIN alt_texts THEN alt_texts[image_name]
               ELSE DefaultDescription
      ELSE IF src_match > 0
      THEN LET image_filename ==
                 Basename(AttrGroup(img_tag, src_match, MS(img_tag, src_match)))
           IN  IF image_filename \in DOMAIN alt_texts THEN alt_texts[image_filename]
               ELSE DefaultDescription
      ELSE DefaultDescription

\* lines 133-136: update or insert the alt attribute
SetAlt(img_tag, image_description) ==
  LET MA(s, i) == MatchAttr("alt=", FALSE, s, i)
      repl == ExpandTemplate(image_description)
      RIns(s, i, e) == <<"<img", SP, "alt=", Q>> \o repl \o <<Q>>
      RUpd(s, i, e) == <<"alt=", Q>> \o repl \o <<Q>>
  IN  IF ReSearch(MA, img_tag) = 0 THEN ReSub(MatchImgOpen, RIns, img_tag)
      ELSE ReSub(MA, RUpd, img_tag)

\* lines 114-142
add_alt_attribute(img_tag, alt_texts) ==
  LET MN(s, i) == MatchAttr("name=", TRUE, s, i)
      name_match == ReSearch(MN, img_tag)
      shaped == IF name_match > 0
                   /\ StartsWithShape(AttrGroup(img_tag, name_match, MN(img_tag, name_match)))
                THEN AddLineClass(img_tag) ELSE img_tag
  IN  AddFluidClass(SetAlt(shaped, ImageDescription(img_tag, alt_texts)))

\* lines 74-106: the fixed responsive head.  The meta and link tags, the
\* style rules and the inline script are opaque lexemes (no pattern of the
\* code matches inside them); the analytics script tag is spelled out.
responsive_head ==
  <<NL, "<head", GT, "<meta charset>", "<meta viewport>", "<link bootstrap>",
    "<style", GT, "css-rules", "</style", GT,
    "<script", SP, "async", SP, "src=", Q,
       "https:", SL, SL, "www.googletagmanager.com", SL, "gtag", SL, "js?id=G-P8LYBP9EDY",
       Q, GT, "</script", GT,
    "<script", SP, "defer", GT, "gtag-config", "</script", GT,
    "</head", GT, NL>>

\* line 107: re.sub(r'<head>.*?</head>', responsive_head, ..., flags=re.DOTALL)
MatchHead(s, i) ==
  IF s[i] = "<head" /\ i + 1 <= Len(s) /\ s[i + 1] = GT
  THEN LET K == {k \in (i + 2)..(Len(s) - 1) : s[k] = "</head" /\ s[k + 1] = GT}
       IN  IF K = {} THEN 0 ELSE (CHOOSE k \in K : \A j \in K : k <= j) + 1
  ELSE 0

ReplaceHead(html_content) ==
  LET R(s, i, e) == responsive_head
  IN  ReSub(MatchHead, R, html_content)

\* line 109: re.search(r'<body[^>]*class="[^"]*container[^"]*"', html_content)
HasContainerBody(s) ==
  \E i \in 1..Len(s) :
     /\ s[i] = "<body"
     /\ \E j \in (i + 1)..(Len(s) - 1) :
          /\ s[j] = "class=" /\ s[j + 1] = Q
          /\ \A m \in (i + 1)..(j - 1) : s[m] # GT
          /\ \E k \in (j + 2)..Len(s) :
               /\ s[k] \in {"container", "container-fluid"}
               /\ \A m \in (j + 2)..k : s[m] # Q
               /\ IndexFrom(s, Q, k + 1) > 0

\* lines 109-110
WrapBody(html_content) ==
  LET M(s, i) == IF s[i] = "<body" THEN i ELSE 0
      R(s, i, e) == <<"<body", SP, "class=", Q, "container", Q>>
  IN  IF HasContainerBody(html_content) THEN html_content
      ELSE ReSub(M, R, html_content)

\* line 112: re.sub(r'\s*(width|height)="[^"]*"', '', html_content)
StripDimensions(html_content) ==
  LET M(s, i) ==
        IF ~(IsSpace(s[i]) \/ s[i] \in {"width=", "height="}) THEN 0
        ELSE LET J == {j \in i..Len(s) : ~IsSpace(s[j])}
                 j == IF J = {} THEN 0 ELSE CHOOSE a \in J : \A b \in J : a <= b
             IN  IF j > 0 /\ s[j] \in {"width=", "height="}
                 THEN MatchAttr(s[j], FALSE, s, j) ELSE 0
      R(s, i, e) == <<>>
  IN  ReSub(M, R, html_content)

\* line 143: re.sub(r'<img[^>]+>', add_alt_attribute, html_content)
RewriteImages(html_content, alt_texts) ==
  LET R(s, i, e) == add_alt_attribute(SubSeq(s, i, e), alt_texts)
  IN  ReSub(MatchImg, R, html_content)

\* line 144: re.sub(r'(<table[^>]*>.*?</table>)', r'<div class="table-responsive">\1</div>', ...)
MatchTable(s, i) ==
  IF s[i] = "<table"
  THEN LET g == IndexFrom(s, GT, i + 1)
           K == {k \in (g + 1)..(Len(s) - 1) : s[k] = "</table" /\ s[k + 1] = GT}
       IN  IF g = 0 \/ K = {} THEN 0 ELSE (CHOOSE k \in K : \A j \in K : k <= j) + 1
  ELSE 0

WrapTables(html_content) ==
  LET R(s, i, e) == <<"<div", SP, "class=", Q, "table-responsive", Q, GT>>
                    \o SubSeq(s, i, e) \o <<"</div", GT>>
  IN  ReSub(MatchTable, R, html_content)

\* lines 145-151: the footer banner before </body> (re.IGNORECASE)
footer_banner == <<NL, "<footer", GT, "<hr", GT, "copyright-line", "</footer", GT, NL>>

AppendFooter(html_content) ==
  LET M(s, i) == IF Lower(s[i]) = "</body" /\ i + 1 <= Len(s) /\ s[i + 1] = GT
                 THEN i + 1 ELSE 0
      R(s, i, e) == footer_banner \o <<"</body", GT>>
  IN  ReSub(M, R, html_content)

\* lines 107-151: the text optimize_html writes for the text it read;
\* a re.error raised on the way leaves the marker ReError in the result.
OptimizeText(html_content, alt_texts) ==
  AppendFooter(WrapTables(RewriteImages(
     StripDimensions(WrapBody(ReplaceHead(html_content))), alt_texts)))

----------------------------------------------------------------------------
(* Re-linker: the re.sub of package_conversion (src/app.py lines 192-196)  *)

\* src="(?:media/)?([^"]+)": the pattern without its lookahead
MatchSrcAnywhere(s, i) ==
  IF s[i] = "src=" /\ i + 1 <= Len(s) /\ s[i + 1] = Q
  THEN LET k == IndexFrom(s, Q, i + 2)
       IN  IF k = 0 \/ k = i + 2 THEN 0 ELSE k
  ELSE 0

\* the pattern restricted to the src that directly follows <img
MatchSrcOfImg(s, i) ==
  IF s[i] = "src=" /\ i + 1 <= Len(s) /\ s[i + 1] = Q
     /\ i > 2 /\ s[i - 2] = "<img"
     /\ ~(i + 3 <= Len(s) /\ s[i + 2] = "images" /\ s[i + 3] = SL)
  THEN LET k == IndexFrom(s, Q, i + 2)
       IN  IF k = 0 \/ k = i + 2 THEN 0 ELSE k
  ELSE 0

\* src="(?!images/)(?:media/)?([^"]+)"
MatchSrc(s, i) ==
  IF s[i] = "src=" /\ i + 1 <= Len(s) /\ s[i + 1] = Q
     /\ ~(i + 3 <= Len(s) /\ s[i + 2] = "images" /\ s[i + 3] = SL)
  THEN LET k == IndexFrom(s, Q, i + 2)
       IN  IF k = 0 \/ k = i + 2 THEN 0 ELSE k
  ELSE 0

\* m.group(1): the value without a leading media/ when something follows it
SrcGroup(s, i, e) ==
  LET v == Slice(s, i + 2, e - 1)
  IN  IF Len(v) > 2 /\ v[1] = "media" /\ v[2] = SL THEN Slice(v, 3, Len(v)) ELSE v

Relink(html_content) ==
  LET R(s, i, e) == <<"src=", Q, "images", SL>> \o Basename(SrcGroup(s, i, e)) \o <<Q>>
  IN  ReSub(MatchSrc, R, html_content)

----------------------------------------------------------------------------
(* The file system.  fs maps each existing path (a str) to its node:       *)
(*   [kind |-> "dir"]                                                      *)
(*   [kind |-> "text", text |-> str]            an HTML file               *)
(*   [kind |-> "docx", docPr |-> ..., media |-> ...]   a source document   *)
(*   [kind |-> "bin", of |-> str]               an extracted image         *)
(*   [kind |-> "zip", entries |-> [arcname -> node], closed |-> BOOLEAN,   *)
(*    ctime |-> when the file was created]                                 *)
(*   [kind |-> "exe"]                           the converter executable   *)

\* os.path.exists(p)
Exists(f, p) == p \in DOMAIN f
IsDir(f, p) == Exists(f, p) /\ f[p].kind = "dir"
IsFile(f, p) == Exists(f, p) /\ f[p].kind # "dir"

\* p and the directories above it, down to the first component
Ancestors(p) == {Slice(p, 1, j - 1) : j \in {k \in 2..(Len(p) + 1) : k = Len(p) + 1 \/ p[k] = SL}}

\* q is p or lies below p
Under(q, p) == Len(q) >= Len(p) /\ Slice(q, 1, Len(p)) = p
                /\ (Len(q) = Len(p) \/ q[Len(p) + 1] = SL)

Put(f, p, node) == [q \in (DOMAIN f) \cup {p} |-> IF q = p THEN node ELSE f[q]]
Drop(f, P) == [q \in (DOMAIN f) \ P |-> f[q]]

\* os.makedirs(p, exist_ok=True) succeeds unless a file is in the way
CanMakedirs(f, p) == \A a \in Ancestors(p) : ~IsFile(f, a)
Makedirs(f, p) ==
  [q \in (DOMAIN f) \cup Ancestors(p) |-> IF q \in DOMAIN f THEN f[q] ELSE [kind |-> "dir"]]

\* open(p, "w") succeeds when the parent directory exists and p is no directory
CanWrite(f, p) == IsDir(f, Dirname(p)) /\ ~IsDir(f, p)

\* shutil.rmtree(p): p and everything below it
Rmtree(f, p) == Drop(f, {q \in DOMAIN f : Under(q, p)})

\* the files os.walk(p) lists: every file at any depth below p
WalkFiles(f, p) == {q \in DOMAIN f : Under(q, p) /\ q # p /\ IsFile(f, q)}

\* os.path.relpath(q, p) for q below p
Relpath(q, p) == Slice(q, Len(p) + 2, Len(q))

\* os.path.splitext(name)[0]: the name without its extension lexeme
Extensions == {".docx", ".DOCX", ".html", ".HTML", ".zip", ".png"}
Stem(name) == IF name # <<>> /\ name[Len(name)] \in Extensions /\ Len(name) > 1
              THEN Slice(name, 1, Len(name) - 1) ELSE name

----------------------------------------------------------------------------
(* optimize_html and extract_images_from_docx as file operations           *)

\* the cross mark U+274C every error message of the code starts with
FailurePrefix == "[cross mark]"
Failure(msg) == <<FailurePrefix, SP>> \o msg
IsFailure(v) == v # <<>> /\ v[1] = FailurePrefix

ErrNoEnt(p) == <<"[Errno 2] No such file or directory: '">> \o p \o <<"'">>

\* optimize_html(html_file, alt_texts).  inPlace: src/app.py writes html_file
\* itself and returns it; the other two files write the _responsive sibling.
\* io_ok = FALSE: the write fails (disk full, permission denied).
\* The result is [fs |-> the files afterwards, ret |-> the returned str].
optimize_html(f, html_file, alt_texts, inPlace, io_ok) ==
  LET cleaned_html_file ==
        IF inPlace THEN html_file
        ELSE Replace(html_file, ".html", <<"_responsive", ".html">>)
      html_content == OptimizeText(f[html_file].text, alt_texts)
  IN  IF html_file = <<>> \/ Lower(html_file[Len(html_file)]) # ".html"
      THEN [fs |-> f,
            ret |-> Failure(<<"Error: The provided file is not an HTML file: ">> \o html_file)]
      ELSE IF ~(IsFile(f, html_file) /\ f[html_file].kind = "text")
      THEN [fs |-> f, ret |-> Failure(<<"Error processing HTML file: ">> \o ErrNoEnt(html_file))]
      ELSE IF Contains(html_content, ReError)
      THEN [fs |-> f, ret |-> Failure(<<"Error processing HTML file: ", "bad escape">>)]
      ELSE IF ~CanWrite(f, cleaned_html_file)
      THEN [fs |-> f, ret |-> Failure(<<"Error processing HTML file: ">> \o ErrNoEnt(cleaned_html_file))]
      ELSE IF ~io_ok
      THEN [fs |-> Put(f, cleaned_html_file, [kind |-> "text", text |-> <<>>]),
            ret |-> Failure(<<"Error processing HTML file: ", "[Errno 28] No space left on device">>)]
      ELSE [fs |-> Put(f, cleaned_html_file, [kind |-> "text", text |-> html_content]),
            ret |-> cleaned_html_file]

MediaPrefix == <<"word", SL, "media", SL>>
IsMedia(file) == Len(file) >= 4 /\ Slice(file, 1, 4) = MediaPrefix

\* extract_images_from_docx(docx_path, destination_folder): the files after
\* it.  The loop runs inside one try block: the first entry whose copy fails
\* ends it.  copies = the number of namelist entries handled before a copy
\* fails (Len(namelist) or more: none fails by an I/O fault).
extract_images_from_docx(f, docx_path, destination_folder, copies) ==
  LET namelist == IF IsFile(f, docx_path) /\ f[docx_path].kind = "docx"
                  THEN f[docx_path].media ELSE <<>>
      g[n \in 0..Len(namelist)] ==
        IF n = 0 THEN [fs |-> f, ok |-> TRUE]
        ELSE LET prev == g[n - 1]
                 file == namelist[n]
                 filename == Basename(file)
                 dest_path == Join(destination_folder, filename)
             IN  IF ~prev.ok \/ ~IsMedia(file) \/ filename = <<>> THEN prev
                 ELSE IF n > copies \/ ~CanWrite(prev.fs, dest_path)
                 THEN [fs |-> prev.fs, ok |-> FALSE]
                 ELSE [fs |-> Put(prev.fs, dest_path, [kind |-> "bin", of |-> file]),
                       ok |-> TRUE]
  IN  g[Len(namelist)].fs

----------------------------------------------------------------------------
(* The three programs.  Two calls of convert_docx_to_html may be in flight *)
(* at once (a front end serves requests on several threads); each call of  *)
(* src/libre_docx2html5.py that succeeds starts its own deletion thread.   *)

VARIABLES
  variant,        \* which of the three source files the process runs
  now,            \* the wall clock, in seconds
  fs,             \* the file system
  pc,             \* pc[c]: where call c of convert_docx_to_html stands
  docx_path,      \* its argument
  current_date,   \* its time stamp (line 203)
  alt_texts,      \* its alt-text index
  optimized,      \* what optimize_html handed back to it
  result,         \* what the call returned (<<>>: nothing yet, or it raised)
  tpc,            \* tpc[c]: where the deletion thread started by c stands
  wake,           \* when its time.sleep(delay) ends
  targs           \* its arguments (folder_path, input_file), line 260

vars == <<variant, now, fs, pc, docx_path, current_date, alt_texts, optimized,
          result, tpc, wake, targs>>

Calls == {"c1", "c2"}
Variants == {"libre_docx2html5.py", "app.py", "libre-docx2html5.py"}

\* line 16
LIBREOFFICE_PATH == <<"/usr/bin/libreoffice">>
\* line 249: delay=600
delay == 600

\* The clock advances in steps of TickLen seconds, up to MaxTime and then
\* as far as the sleeping deletion threads need.
TickLen == 600
MaxTime == 600

\* The uploads a front end has saved: the same document under a lower-case
\* and an upper-case extension.  Its document.xml holds scenario A of the
\* design (Picture1 with a description, Shape2 without); word/media/ holds
\* one image.
PathA == <<"up", SL, "a", ".docx">>
PathB == <<"up", SL, "b", ".DOCX">>
Paths == {PathA, PathB}

Document ==
  [kind |-> "docx",
   docPr |-> << [name |-> <<"Picture", "1">>, descr |-> <<"A", SP, "red", SP, "circle">>],
                [name |-> <<"Shape", "2">>, descr |-> <<>>] >>,
   media |-> << <<"word", SL, "document.xml">>,
                <<"word", SL, "media", SL, "image1", ".png">> >>]

\* What the external converter writes for Document: one <img> per image,
\* named as in the document, with the converter's own image file names.
ConverterHtml ==
  <<"<html", GT, "<head", GT, "<title", GT, "</title", GT, "</head", GT, "<body", GT,
    "<img", SP, "src=", Q, "a_html_1", ".png", Q, SP, "name=", Q, "Picture", "1", Q,
       SP, "width=", Q, "10", Q, GT,
    "<img", SP, "src=", Q, "a_html_2", ".png", Q, SP, "name=", Q, "Shape", "2", Q, GT,
    "</body", GT, "</html", GT>>

\* lines 202-204, 225, 231, 236 of src/libre_docx2html5.py
base_name(c) == Stem(Basename(docx_path[c]))
output_folder(c) ==
  Join(Dirname(docx_path[c]), base_name(c) \o <<"_", current_date[c]>>)
images_folder(c) == Join(output_folder(c), <<"images">>)
zip_filename(c) ==
  Join(output_folder(c), base_name(c) \o <<"_", current_date[c], "_package", ".zip">>)

\* --outdir of the converter: the output folder, or (src/app.py line 226,
\* src/libre-docx2html5.py line 79) the directory of the source
output_dir(c) == IF variant = "libre_docx2html5.py" THEN output_folder(c)
                 ELSE Dirname(docx_path[c])

\* line 225 (app.py 236, libre-docx2html5.py 89)
html_file(c) == Join(output_dir(c), Replace(Basename(docx_path[c]), ".docx", <<".html">>))

\* the file the converter writes: <input basename without extension>.html
converter_file(c) == Join(output_dir(c), base_name(c) \o <<".html">>)

Init ==
  /\ variant \in Variants
  /\ now = 0
  /\ \E installed \in BOOLEAN :
       fs = [p \in {<<"up">>} \cup Paths \cup (IF installed THEN {LIBREOFFICE_PATH} ELSE {}) |->
               IF p = <<"up">> THEN [kind |-> "dir"]
               ELSE IF p = LIBREOFFICE_PATH THEN [kind |-> "exe"]
               ELSE Document]
  /\ pc = [c \in Calls |-> "idle"]
  /\ docx_path = [c \in Calls |-> <<>>]
  /\ current_date = [c \in Calls |-> ""]
  /\ alt_texts = [c \in Calls |-> <<>>]
  /\ optimized = [c \in Calls |-> <<>>]
  /\ result = [c \in Calls |-> <<>>]
  /\ tpc = [c \in Calls |-> "none"]
  /\ wake = [c \in Calls |-> 0]
  /\ targs = [c \in Calls |-> [folder_path |-> <<>>, input_file |-> <<>>]]

Return(c, value) == /\ pc' = [pc EXCEPT ![c] = "returned"]
                    /\ result' = [result EXCEPT ![c] = value]
Raise(c) == /\ pc' = [pc EXCEPT ![c] = "raised"]
            /\ UNCHANGED result
Goto(c, label) == /\ pc' = [pc EXCEPT ![c] = label]
                  /\ UNCHANGED result

\* a front end calls convert_docx_to_html(p)
Call(c, p) ==
  /\ pc[c] = "idle"
  /\ docx_path' = [docx_path EXCEPT ![c] = p]
  /\ Goto(c, "check")
  /\ UNCHANGED <<variant, now, fs, current_date, alt_texts, optimized, tpc, wake, targs>>

\* Check with the output folder made before the two preconditions are
\* looked at (lines 202-205 moved above line 191).
CheckAfterMakedirs(c) ==
  /\ pc[c] = "check"
  /\ current_date' = [current_date EXCEPT ![c] = ToString(now)]
  /\ LET folder == Join(Dirname(docx_path[c]), base_name(c) \o <<"_", ToString(now)>>)
     IN  fs' = IF CanMakedirs(fs, folder) THEN Makedirs(fs, folder) ELSE fs
  /\ IF ~Exists(fs, docx_path[c])
     THEN Return(c, Failure(<<"Error: File '">> \o docx_path[c] \o <<"' not found.">>))
     ELSE IF ~Exists(fs, LIBREOFFICE_PATH)
     THEN Return(c, Failure(<<"Error: LibreOffice not found at '">>
                              \o LIBREOFFICE_PATH \o <<"'.">>))
     ELSE Goto(c, "extract_alt")
  /\ UNCHANGED <<variant, now, docx_path, alt_texts, optimized, tpc, wake, targs>>

\* lines 191-204: the two preconditions, then the time stamp
Check(c) ==
  /\ pc[c] = "check"
  /\ IF ~Exists(fs, docx_path[c])
     THEN /\ Return(c, Failure(<<"Error: File '">> \o docx_path[c] \o <<"' not found.">>))
          /\ UNCHANGED current_date
     ELSE IF ~Exists(fs, LIBREOFFICE_PATH)
     THEN /\ Return(c, Failure(<<"Error: LibreOffice not found at '">>
                                 \o LIBREOFFICE_PATH \o <<"'.">>))
          /\ UNCHANGED current_date
     ELSE /\ current_date' = [current_date EXCEPT ![c] = ToString(now)]
          /\ Goto(c, IF variant = "libre_docx2html5.py" THEN "make_output" ELSE "extract_alt")
  /\ UNCHANGED <<variant, now, fs, docx_path, alt_texts, optimized, tpc, wake, targs>>

\* line 205: os.makedirs(output_folder, exist_ok=True)
MakeOutput(c) ==
  /\ pc[c] = "make_output"
  /\ IF CanMakedirs(fs, output_folder(c))
     THEN fs' = Makedirs(fs, output_folder(c)) /\ Goto(c, "extract_alt")
     ELSE UNCHANGED fs /\ Raise(c)
  /\ UNCHANGED <<variant, now, docx_path, current_date, alt_texts, optimized, tpc, wake, targs>>

\* line 209: alt_texts = extract_alt_text_from_docx(docx_path)
ExtractAlt(c) ==
  /\ pc[c] = "extract_alt"
  /\ LET readable == IsFile(fs, docx_path[c]) /\ fs[docx_path[c]].kind = "docx"
     IN  alt_texts' = [alt_texts EXCEPT ![c] =
            extract_alt_text_from_docx(readable,
               IF readable THEN fs[docx_path[c]].docPr ELSE <<>>)]
  /\ Goto(c, "convert")
  /\ UNCHANGED <<variant, now, fs, docx_path, current_date, optimized, tpc, wake, targs>>

\* lines 212-222: subprocess.run of the converter.  The converter is
\* external: it exits non-zero, or exits zero without output, or (only while
\* the source is there) writes its HTML file, one of pages, into the --outdir.
ConvertWrites(c, pages) ==
  /\ pc[c] = "convert"
  /\ \/ /\ Return(c, Failure(<<"Error during conversion: ", "CalledProcessError">>))
        /\ UNCHANGED fs
     \/ /\ Goto(c, "check_html")
        /\ UNCHANGED fs
     \/ /\ IsFile(fs, docx_path[c])
        /\ CanMakedirs(fs, output_dir(c))
        /\ \E page \in pages :
             fs' = Put(Makedirs(fs, output_dir(c)), converter_file(c),
                       [kind |-> "text", text |-> page])
        /\ Goto(c, "check_html")
  /\ UNCHANGED <<variant, now, docx_path, current_date, alt_texts, optimized, tpc, wake, targs>>

Convert(c) == ConvertWrites(c, {ConverterHtml})

\* CheckHtml with the deletion thread started on the failing path as well
CheckHtmlSchedules(c) ==
  /\ pc[c] = "check_html"
  /\ IF Exists(fs, html_file(c))
     THEN Goto(c, "optimize") /\ UNCHANGED <<tpc, wake, targs>>
     ELSE /\ Return(c, Failure(<<"Error: Conversion failed. HTML file not created.">>))
          /\ tpc' = [tpc EXCEPT ![c] = "sleep"]
          /\ wake' = [wake EXCEPT ![c] = now + delay]
          /\ targs' = [targs EXCEPT ![c] = [folder_path |-> output_folder(c),
                                            input_file |-> docx_path[c]]]
  /\ UNCHANGED <<variant, now, fs, docx_path, current_date, alt_texts, optimized>>

\* lines 225-226 and 264-267: os.path.exists(html_file)
CheckHtml(c) ==
  /\ pc[c] = "check_html"
  /\ IF Exists(fs, html_file(c)) THEN Goto(c, "optimize")
     ELSE Return(c, Failure(<<"Error: Conversion failed. HTML file not created.">>))
  /\ UNCHANGED <<variant, now, fs, docx_path, current_date, alt_texts, optimized, tpc, wake, targs>>

\* line 227 (app.py 238, libre-docx2html5.py 91): optimize_html(html_file,
\* alt_texts).  src/libre_docx2html5.py only prints what it hands back;
\* src/libre-docx2html5.py returns it inside the success message;
\* src/app.py passes it to package_conversion.
SuccessPrefix == "[check mark]"
Optimize(c) ==
  /\ pc[c] = "optimize"
  /\ \E io_ok \in BOOLEAN :
       LET r == optimize_html(fs, html_file(c), alt_texts[c], variant = "app.py", io_ok)
       IN  /\ fs' = r.fs
           /\ optimized' = [optimized EXCEPT ![c] = r.ret]
           /\ IF variant = "libre_docx2html5.py" THEN Goto(c, "make_images")
              ELSE IF variant = "app.py" THEN Goto(c, "package")
              ELSE Return(c, <<SuccessPrefix, SP,
                                "Conversion successful! Responsive HTML5 saved at: ">> \o r.ret)
  /\ UNCHANGED <<variant, now, docx_path, current_date, alt_texts, tpc, wake, targs>>

\* lines 231-232: os.makedirs(images_folder, exist_ok=True)
MakeImages(c) ==
  /\ pc[c] = "make_images"
  /\ IF CanMakedirs(fs, images_folder(c))
     THEN fs' = Makedirs(fs, images_folder(c)) /\ Goto(c, "extract_images")
     ELSE UNCHANGED fs /\ Raise(c)
  /\ UNCHANGED <<variant, now, docx_path, current_date, alt_texts, optimized, tpc, wake, targs>>

\* line 168: len(docx_zip.namelist()), 0 when the archive cannot be opened
NamelistLen(f, docx) ==
  IF IsFile(f, docx) /\ f[docx].kind = "docx" THEN Len(f[docx].media) ELSE 0

\* line 233: extract_images_from_docx(docx_path, images_folder)
ExtractImages(c) ==
  /\ pc[c] = "extract_images"
  /\ \E copies \in 0..NamelistLen(fs, docx_path[c]) :
       fs' = extract_images_from_docx(fs, docx_path[c], images_folder(c), copies)
  /\ Goto(c, "open_zip")
  /\ UNCHANGED <<variant, now, docx_path, current_date, alt_texts, optimized, tpc, wake, targs>>

\* line 237: zipfile.ZipFile(zip_filename, 'w', ...) creates the file
OpenZip(c) ==
  /\ pc[c] = "open_zip"
  /\ IF CanWrite(fs, zip_filename(c))
     THEN /\ fs' = Put(fs, zip_filename(c),
                        [kind |-> "zip", entries |-> <<>>, closed |-> FALSE, ctime |-> now])
          /\ Goto(c, "write_zip")
     ELSE UNCHANGED fs /\ Raise(c)
  /\ UNCHANGED <<variant, now, docx_path, current_date, alt_texts, optimized, tpc, wake, targs>>

\* lines 238-245: the entries written for the files os.walk finds
WalkEntries(f, folder, zip) ==
  LET files == {q \in WalkFiles(f, folder) : Basename(q) # Basename(zip)}
  IN  [a \in {Relpath(q, folder) : q \in files} |->
         f[CHOOSE q \in files : Relpath(q, folder) = a]]

\* lines 238-246: the walk, the writes and the close of the archive.  An
\* I/O fault while writing leaves the exception to the caller and the
\* archive file, closed by the with block, in place.  When the file was
\* unlinked meanwhile the writes go to the unlinked file.
WriteZip(c) ==
  /\ pc[c] = "write_zip"
  /\ \E io_ok \in BOOLEAN :
       LET entries == IF io_ok THEN WalkEntries(fs, output_folder(c), zip_filename(c))
                      ELSE <<>>
       IN  /\ fs' = IF Exists(fs, zip_filename(c))
                    THEN Put(fs, zip_filename(c),
                             [kind |-> "zip", entries |-> entries, closed |-> TRUE,
                              ctime |-> fs[zip_filename(c)].ctime])
                    ELSE fs
           /\ IF io_ok THEN Goto(c, "schedule") ELSE Raise(c)
  /\ UNCHANGED <<variant, now, docx_path, current_date, alt_texts, optimized, tpc, wake, targs>>

\* lines 249-263: the deletion thread is started (its time.sleep(delay)
\* begins), and the package path is returned
Schedule(c) ==
  /\ pc[c] = "schedule"
  /\ tpc' = [tpc EXCEPT ![c] = "sleep"]
  /\ wake' = [wake EXCEPT ![c] = now + delay]
  /\ targs' = [targs EXCEPT ![c] = [folder_path |-> output_folder(c),
                                    input_file |-> docx_path[c]]]
  /\ Return(c, zip_filename(c))
  /\ UNCHANGED <<variant, now, fs, docx_path, current_date, alt_texts, optimized>>

\* schedule_deletion, lines 251-252: the sleep ends; os.path.exists(folder_path)
ThreadWake(c) ==
  /\ tpc[c] = "sleep"
  /\ now >= wake[c]
  /\ tpc' = [tpc EXCEPT ![c] = IF Exists(fs, targs[c].folder_path) THEN "rmtree"
                                ELSE "check_input"]
  /\ UNCHANGED <<variant, now, fs, pc, docx_path, current_date, alt_texts, optimized,
                 result, wake, targs>>

\* line 253: shutil.rmtree(folder_path); FileNotFoundError ends the thread
ThreadRmtree(c) ==
  /\ tpc[c] = "rmtree"
  /\ IF IsDir(fs, targs[c].folder_path)
     THEN /\ fs' = Rmtree(fs, targs[c].folder_path)
          /\ tpc' = [tpc EXCEPT ![c] = "check_input"]
     ELSE /\ UNCHANGED fs
          /\ tpc' = [tpc EXCEPT ![c] = "died"]
  /\ UNCHANGED <<variant, now, pc, docx_path, current_date, alt_texts, optimized,
                 result, wake, targs>>

\* ThreadCheckInput when line 255 finds no input file whatever is on disk
ThreadSkipsInput(c) ==
  /\ tpc[c] = "check_input"
  /\ tpc' = [tpc EXCEPT ![c] = "finished"]
  /\ UNCHANGED <<variant, now, fs, pc, docx_path, current_date, alt_texts, optimized,
                 result, wake, targs>>

\* line 255: os.path.exists(input_file)
ThreadCheckInput(c) ==
  /\ tpc[c] = "check_input"
  /\ tpc' = [tpc EXCEPT ![c] = IF Exists(fs, targs[c].input_file) THEN "remove" ELSE "finished"]
  /\ UNCHANGED <<variant, now, fs, pc, docx_path, current_date, alt_texts, optimized,
                 result, wake, targs>>

\* line 256: os.remove(input_file); FileNotFoundError ends the thread
ThreadRemove(c) ==
  /\ tpc[c] = "remove"
  /\ IF IsFile(fs, targs[c].input_file)
     THEN /\ fs' = Drop(fs, {targs[c].input_file})
          /\ tpc' = [tpc EXCEPT ![c] = "finished"]
     ELSE /\ UNCHANGED fs
          /\ tpc' = [tpc EXCEPT ![c] = "died"]
  /\ UNCHANGED <<variant, now, pc, docx_path, current_date, alt_texts, optimized,
                 result, wake, targs>>

\* time passes
Tick ==
  /\ \/ now < MaxTime
     \/ \E c \in Calls : tpc[c] = "sleep" /\ now < wake[c]
  /\ now' = now + TickLen
  /\ UNCHANGED <<variant, fs, pc, docx_path, current_date, alt_texts, optimized,
                 result, tpc, wake, targs>>

----------------------------------------------------------------------------
(* Packager of src/app.py                                                  *)

\* package_conversion(docx_path, responsive_html_file), lines 181-208.
\* The result is [fs, ret, raised]: the files afterwards, the returned
\* path, and whether an exception left the function instead; t is the
\* time of the call.
package_conversion(f, docx, responsive_html_file, copies, t) ==
  LET out_dir == Dirname(responsive_html_file)
      images_dir == Join(out_dir, <<"images">>)
      f1 == extract_images_from_docx(Makedirs(f, images_dir), docx, images_dir, copies)
      updated_html == Relink(f1[responsive_html_file].text)
      f2 == Put(f1, responsive_html_file, [kind |-> "text", text |-> updated_html])
      zip == Replace2(responsive_html_file, "_responsive", ".html", <<"_package", ".zip">>)
      \* line 200 truncates zip; line 201 then reads responsive_html_file
      f3 == Put(f2, zip, [kind |-> "zip", entries |-> <<>>, closed |-> FALSE, ctime |-> t])
      html_entry == IF zip = responsive_html_file THEN [kind |-> "text", text |-> <<>>]
                    ELSE f3[responsive_html_file]
      images == WalkFiles(f3, images_dir)
      names == {Basename(responsive_html_file)}
                 \cup {Join(<<"images">>, Basename(q)) : q \in images}
      entries == [a \in names |->
                    IF a = Basename(responsive_html_file) THEN html_entry
                    ELSE f3[CHOOSE q \in images : Join(<<"images">>, Basename(q)) = a]]
  IN  IF ~CanMakedirs(f, images_dir)
      THEN [fs |-> f, ret |-> <<>>, raised |-> TRUE]
      ELSE IF ~(IsFile(f1, responsive_html_file) /\ f1[responsive_html_file].kind = "text")
      THEN [fs |-> f1, ret |-> <<>>, raised |-> TRUE]
      ELSE [fs |-> Put(f3, zip, [kind |-> "zip", entries |-> entries, closed |-> TRUE,
                                 ctime |-> t]),
            ret |-> zip, raised |-> FALSE]

\* src/app.py lines 239-241
Package(c) ==
  /\ pc[c] = "package"
  /\ \E copies \in 0..Len(Document.media) :
       LET r == package_conversion(fs, docx_path[c], optimized[c], copies, now)
       IN  /\ fs' = r.fs
           /\ IF r.raised THEN Raise(c) ELSE Return(c, r.ret)
  /\ UNCHANGED <<variant, now, docx_path, current_date, alt_texts, optimized, tpc, wake, targs>>

Libre == variant = "libre_docx2html5.py"

\* call c has returned a package path
ReturnedPackage(c) == pc[c] = "returned" /\ result[c] # <<>> /\ ~IsFailure(result[c])

Next ==
  \/ \E c \in Calls : \E p \in Paths : Call(c, p)
  \/ \E c \in Calls : Check(c)
  \/ \E c \in Calls : MakeOutput(c)
  \/ \E c \in Calls : ExtractAlt(c)
  \/ \E c \in Calls : Convert(c)
  \/ \E c \in Calls : CheckHtml(c)
  \/ \E c \in Calls : Optimize(c)
  \/ \E c \in Calls : MakeImages(c)
  \/ \E c \in Calls : ExtractImages(c)
  \/ \E c \in Calls : OpenZip(c)
  \/ \E c \in Calls : WriteZip(c)
  \/ \E c \in Calls : Schedule(c)
  \/ \E c \in Calls : Package(c)
  \/ \E c \in Calls : ThreadWake(c)
  \/ \E c \in Calls : ThreadRmtree(c)
  \/ \E c \in Calls : ThreadCheckInput(c)
  \/ \E c \in Calls : ThreadRemove(c)
  \/ Tick

Spec == Init /\ [][Next]_vars

----------------------------------------------------------------------------
(* The rewriter on one image.  A call of src/libre_docx2html5.py stands at *)
(* line 209 with a source document whose document.xml is one of DocPrLists; *)
(* the converter then writes a page holding one <img> tag of ImgTags.      *)

\* an attribute of a tag: absent (<<>>) or present with a value (<<value>>)
MkAttr(key, opt) == IF opt = <<>> THEN <<>> ELSE <<SP, key, Q>> \o opt[1] \o <<Q>>

ImgNames == {<<>>, << <<>> >>, << <<"Picture", "1">> >>, << <<"Shape", "2">> >>,
             << <<"SHAPE", "2">> >>}
ImgClasses == {<<>>, << <<>> >>, << <<"photo">> >>, << <<"img-line">> >>,
               << <<"img-fluid">> >>, << <<"img-line", SP, "img-fluid">> >>}
ImgAlts == {<<>>, << <<>> >>, << <<"old">> >>}
ImgSrcs == {<< <<"a_html_1", ".png">> >>, << <<"media", SL, "Picture", "1">> >>}

ImgTags ==
  {<<"<img">> \o MkAttr("src=", s) \o MkAttr("name=", n) \o MkAttr("class=", k)
      \o MkAttr("alt=", a) \o <<GT>> :
     s \in ImgSrcs, n \in ImgNames, k \in ImgClasses, a \in ImgAlts}

ImgPages == {<<"<head", GT, "</head", GT, "<body", GT>> \o t \o <<"</body", GT>> :
               t \in ImgTags}

DocNames == {<<"Picture", "1">>, <<SP, "Shape", "2">>, <<"SHAPE", "2">>}
Descriptions == {<<"A", SP, "red", SP, "circle">>, <<SP, "Logo", NL>>, <<SP>>, <<>>,
                 <<"A", SP, Q, "red", Q, SP, "circle">>, <<Q, "red", Q, SP, "circle">>,
                 <<"C:", BS, "docs">>}
DocPrEntries == {[name |-> n, descr |-> d] : n \in DocNames, d \in Descriptions}
Unrelated == [name |-> <<"Chart", "9">>, descr |-> <<"Sales", SP, "chart">>]
DocPrLists == {<<>>} \cup {<<e>> : e \in DocPrEntries}
                     \cup {<<Unrelated, e>> : e \in DocPrEntries}

ImgInit ==
  /\ variant = "libre_docx2html5.py"
  /\ now = 0
  /\ \E docs \in DocPrLists :
       fs = [p \in {<<"up">>, PathA, LIBREOFFICE_PATH, <<"up", SL, "a", "_", "0">>} |->
               IF p = PathA THEN [Document EXCEPT !.docPr = docs]
               ELSE IF p = LIBREOFFICE_PATH THEN [kind |-> "exe"]
               ELSE [kind |-> "dir"]]
  /\ pc = [c \in Calls |-> IF c = "c1" THEN "extract_alt" ELSE "idle"]
  /\ docx_path = [c \in Calls |-> IF c = "c1" THEN PathA ELSE <<>>]
  /\ current_date = [c \in Calls |-> IF c = "c1" THEN "0" ELSE ""]
  /\ alt_texts = [c \in Calls |-> <<>>]
  /\ optimized = [c \in Calls |-> <<>>]
  /\ result = [c \in Calls |-> <<>>]
  /\ tpc = [c \in Calls |-> "none"]
  /\ wake = [c \in Calls |-> 0]
  /\ targs = [c \in Calls |-> [folder_path |-> <<>>, input_file |-> <<>>]]

ImgNext ==
  \/ ExtractAlt("c1")
  \/ ConvertWrites("c1", ImgPages)
  \/ CheckHtml("c1")
  \/ Optimize("c1")

SpecImg == ImgInit /\ [][ImgNext]_vars


----------------------------------------------------------------------------
(* The packager on one page.  package_conversion of src/app.py is called   *)
(* with the source document and an HTML file, named <stem>.html (what      *)
(* optimize_html of src/app.py hands back) or <stem>_responsive.html; a    *)
(* second call with the same arguments follows the first.                  *)

SrcTexts == {<<"images", SL, "image1", ".png">>, <<"images", SL, "sub", SL, "a", ".png">>,
             <<"media", SL, "image1", ".png">>, <<"image1", ".png">>,
             <<"a_html_1", ".png">>, <<"word", SL, "media", SL, "image1", ".png">>,
             <<"media", SL>>, <<"images">>, <<>>}

\* tags other than <img> that carry a src, with external URLs as values
OtherSrcTags ==
  {<<"<script", SP, "src=", Q, "https:", SL, SL, "cdn.example", SL, "lib", ".js", Q, GT,
     "</script", GT>>,
   <<"<iframe", SP, "src=", Q, SL, SL, "host.example", SL, "page", Q, GT, "</iframe", GT>>,
   <<"<video", GT, "<source", SP, "src=", Q, "media", SL, "clip", ".mp4", Q, GT,
     "</video", GT>>}

PkgPages ==
  {<<"<body", GT, "<img", SP, "src=", Q>> \o v \o <<Q, GT, "<img", SP, "src=", Q>> \o w
       \o <<Q, SP, "alt=", Q, "x", Q, GT, "</body", GT>> : v \in SrcTexts, w \in SrcTexts}
    \cup {OptimizeText(ConverterHtml, <<>>)}
    \cup {<<"<body", GT>> \o t \o <<"</body", GT>> : t \in OtherSrcTags}

PkgFiles == {<<"up", SL, "a", ".html">>, <<"up", SL, "a", "_responsive", ".html">>}

PkgInit ==
  /\ variant = "app.py"
  /\ now = 0
  /\ \E file \in PkgFiles : \E page \in PkgPages :
       /\ fs = [p \in {<<"up">>, PathA, LIBREOFFICE_PATH, file} |->
                  IF p = PathA THEN Document
                  ELSE IF p = LIBREOFFICE_PATH THEN [kind |-> "exe"]
                  ELSE IF p = file THEN [kind |-> "text", text |-> page]
                  ELSE [kind |-> "dir"]]
       /\ optimized = [c \in Calls |-> IF c = "c1" THEN file ELSE <<>>]
  /\ pc = [c \in Calls |-> IF c = "c1" THEN "package" ELSE "idle"]
  /\ docx_path = [c \in Calls |-> IF c = "c1" THEN PathA ELSE <<>>]
  /\ current_date = [c \in Calls |-> IF c = "c1" THEN "0" ELSE ""]
  /\ alt_texts = [c \in Calls |-> <<>>]
  /\ result = [c \in Calls |-> <<>>]
  /\ tpc = [c \in Calls |-> "none"]
  /\ wake = [c \in Calls |-> 0]
  /\ targs = [c \in Calls |-> [folder_path |-> <<>>, input_file |-> <<>>]]

\* package_conversion once more, with the arguments of the call that returned
Repackage(c) ==
  /\ pc[c] = "returned" /\ variant = "app.py" /\ ReturnedPackage(c)
  /\ \E copies \in 0..Len(Document.media) :
       LET r == package_conversion(fs, docx_path[c], optimized[c], copies, now)
       IN  /\ fs' = r.fs
           /\ IF r.raised THEN Raise(c)
              ELSE /\ pc' = [pc EXCEPT ![c] = "repackaged"]
                   /\ result' = [result EXCEPT ![c] = r.ret]
  /\ UNCHANGED <<variant, now, docx_path, current_date, alt_texts, optimized, tpc, wake, targs>>

PkgNext == Package("c1") \/ Repackage("c1")

SpecPkg == PkgInit /\ [][PkgNext]_vars


----------------------------------------------------------------------------
(* One call of src/libre_docx2html5.py on its own, for a source document   *)
(* without images, with one image or with two.                             *)

NoMedia == [Document EXCEPT !.media = << <<"word", SL, "document.xml">> >>]
TwoMedia == [Document EXCEPT !.media = << <<"word", SL, "document.xml">>,
                                          <<"word", SL, "media", SL, "image1", ".png">>,
                                          <<"word", SL, "media", SL>>,
                                          <<"word", SL, "media", SL, "image2", ".png">> >>]
SoloDocuments == {Document, NoMedia, TwoMedia}

SoloInit ==
  /\ variant = "libre_docx2html5.py"
  /\ now = 0
  /\ \E doc \in SoloDocuments :
       fs = [p \in {<<"up">>, PathA, LIBREOFFICE_PATH} |->
               IF p = PathA THEN doc
               ELSE IF p = LIBREOFFICE_PATH THEN [kind |-> "exe"]
               ELSE [kind |-> "dir"]]
  /\ pc = [c \in Calls |-> "idle"]
  /\ docx_path = [c \in Calls |-> <<>>]
  /\ current_date = [c \in Calls |-> ""]
  /\ alt_texts = [c \in Calls |-> <<>>]
  /\ optimized = [c \in Calls |-> <<>>]
  /\ result = [c \in Calls |-> <<>>]
  /\ tpc = [c \in Calls |-> "none"]
  /\ wake = [c \in Calls |-> 0]
  /\ targs = [c \in Calls |-> [folder_path |-> <<>>, input_file |-> <<>>]]

SoloNext ==
  \/ Call("c1", PathA)
  \/ Check("c1")
  \/ MakeOutput("c1")
  \/ ExtractAlt("c1")
  \/ Convert("c1")
  \/ CheckHtml("c1")
  \/ Optimize("c1")
  \/ MakeImages("c1")
  \/ ExtractImages("c1")
  \/ OpenZip("c1")
  \/ WriteZip("c1")
  \/ Schedule("c1")
  \/ ThreadWake("c1")
  \/ ThreadRmtree("c1")
  \/ ThreadCheckInput("c1")
  \/ ThreadRemove("c1")
  \/ Tick

SpecSolo == SoloInit /\ [][SoloNext]_vars


\* the deletion thread of a call, and the passing of time, are never
\* starved: a started thread runs until it ends
Fairness ==
  /\ WF_vars(Tick)
  /\ \A c \in Calls : /\ WF_vars(ThreadWake(c))
                       /\ WF_vars(ThreadRmtree(c))
                       /\ WF_vars(ThreadCheckInput(c))
                       /\ WF_vars(ThreadRemove(c))

FairSpec == Init /\ [][Next]_vars /\ Fairness

----------------------------------------------------------------------------
(* Properties of the pipelines                                             *)

\* C1: in every variant, once optimize_html has handed back an error
\* message the call is over and what it returned is a failure value: it
\* goes on to no packaging step, returns no path or success message, and
\* does not raise.
C1_OptimizeFailureHalts ==
  \A c \in Calls :
     IsFailure(optimized[c]) => pc[c] = "returned" /\ IsFailure(result[c])

\* call c has just returned a package path: its deletion thread sleeps
JustReturned(c) == Libre /\ ReturnedPackage(c) /\ tpc[c] = "sleep"

InFlight(c) ==
  pc[c] \in {"extract_alt", "convert", "check_html", "optimize", "make_images",
             "extract_images", "open_zip", "write_zip", "schedule"}

\* C3: two calls of src/libre_docx2html5.py that are both at work never
\* have the same output directory, and no step of the deletion thread of
\* one call removes the output directory or the source document of another
\* call that is still at work.
C3_NoSharedState ==
  /\ [](\A c, d \in Calls :
          (Libre /\ c # d /\ InFlight(c) /\ InFlight(d))
             => output_folder(c) # output_folder(d))
  /\ [][\A c, d \in Calls :
          (Libre /\ c # d /\ InFlight(d) /\ tpc'[c] # tpc[c])
             => /\ Exists(fs, output_folder(d)) => Exists(fs', output_folder(d))
                /\ Exists(fs, docx_path[d]) => Exists(fs', docx_path[d])]_vars

\* C4: the archive of a call of src/libre_docx2html5.py that returns a
\* package path is on disk when the call returns, and no step removes the
\* archive or its directory while less than delay seconds have passed since
\* the archive was created.  (The file at the returned path is the call's
\* archive when it was created before the call returned, that is, delay
\* seconds or more before wake[c].)
C4_ArchiveRetained ==
  [][\A c \in Calls :
       /\ (Libre /\ pc[c] = "schedule" /\ pc'[c] = "returned")
             => (Exists(fs', zip_filename(c)) /\ Exists(fs', output_folder(c)))
       /\ (Libre /\ ReturnedPackage(c) /\ Exists(fs, zip_filename(c))
              /\ fs[zip_filename(c)].ctime + delay <= wake[c]
              /\ now' < fs[zip_filename(c)].ctime + delay)
             => (Exists(fs', zip_filename(c)) /\ Exists(fs', output_folder(c)))]_vars

\* C5: a call of src/libre_docx2html5.py that finds its source path or the
\* converter executable missing returns a failure value in that very step,
\* with the files on disk and the deletion threads as they were: no output
\* directory made, no converter run, no thread started.
C5_PreconditionFailureChangesNothing ==
  [][\A c \in Calls :
       (Libre /\ pc[c] = "check" /\ pc'[c] # "check"
          /\ (~Exists(fs, docx_path[c]) \/ ~Exists(fs, LIBREOFFICE_PATH)))
         => /\ pc'[c] = "returned" /\ IsFailure(result'[c])
            /\ fs' = fs /\ tpc' = tpc /\ tpc[c] = "none"]_vars

C5_Witness ==
  \E c \in Calls :
     /\ Libre /\ pc[c] = "returned" /\ IsFailure(result[c])
     /\ result[c][3] = "Error: File '" /\ ~Exists(fs, docx_path[c])
     /\ tpc[c] = "none" /\ current_date[c] = ""

\* the <img> tag of a page, and an attribute of a tag as a reader of the
\* markup sees it: absent (<<>>) or <<the text between key=" and the next ">>
TagOf(text) ==
  LET i == ReSearch(MatchImg, text)
  IN  IF i = 0 THEN <<>> ELSE Slice(text, i, MatchImg(text, i))
AttrValue(tag, key) ==
  LET M(s, i) == MatchAttr(key, FALSE, s, i)
      i == ReSearch(M, tag)
  IN  IF i = 0 THEN <<>> ELSE <<AttrGroup(tag, i, M(tag, i))>>

\* the call of SpecImg has had its page rewritten by optimize_html
Rewritten == Libre /\ pc["c1"] = "make_images" /\ ~IsFailure(optimized["c1"])
PageIn == TagOf(fs[html_file("c1")].text)
PageOut == TagOf(fs[optimized["c1"]].text)

\* C6: when a description element of the document has a non-blank name and
\* a non-blank descr, and the <img> tag the converter wrote carries that
\* name, the tag optimize_html writes has an alt attribute whose value is
\* that description, whatever alt the tag had.
C6_AltIsDescription ==
  Rewritten =>
    LET docs == fs[docx_path["c1"]].docPr
    IN  \A n \in 1..Len(docs) :
          (/\ Strip(docs[n].name) # <<>> /\ Strip(docs[n].descr) # <<>>
           /\ AttrValue(PageIn, "name=") = <<Strip(docs[n].name)>>)
            => AttrValue(PageOut, "alt=") = <<Strip(docs[n].descr)>>

\* the file name of the tag's src, and the tag's name
SrcBasename(tag) ==
  IF AttrValue(tag, "src=") = <<>> THEN <<>> ELSE Basename(AttrValue(tag, "src=")[1])
NameOf(tag) == IF AttrValue(tag, "name=") = <<>> THEN <<>> ELSE AttrValue(tag, "name=")[1]

\* C7: a tag with no matching entry in the alt-text index gets the default
\* description as its alt, and every tag optimize_html writes has an alt
\* attribute that is not empty.
C7_DefaultAlt ==
  Rewritten =>
    /\ (NameOf(PageIn) \notin DOMAIN alt_texts["c1"]
          /\ SrcBasename(PageIn) \notin DOMAIN alt_texts["c1"])
         => AttrValue(PageOut, "alt=") = <<DefaultDescription>>
    /\ AttrValue(PageOut, "alt=") # <<>>
    /\ AttrValue(PageOut, "alt=") # << <<>> >>

\* C8: a tag whose name starts with "shape" in any letter case has both
\* img-line and img-fluid among its classes after optimize_html, whatever
\* its class attribute was: absent, empty, other classes, or one or both of
\* the two already.
C8_ShapeClasses ==
  (Rewritten /\ StartsWithShape(NameOf(PageIn)))
    => /\ AttrValue(PageOut, "class=") # <<>>
       /\ Contains(AttrValue(PageOut, "class=")[1], "img-line")
       /\ Contains(AttrValue(PageOut, "class=")[1], "img-fluid")

\* the values of the src attributes of a text, in order
SrcSeq(text) ==
  LET M(s, i) == MatchAttr("src=", FALSE, s, i)
      starts == {i \in 1..Len(text) : M(text, i) > 0}
      nth(k) == CHOOSE i \in starts : Cardinality({j \in starts : j < i}) = k - 1
  IN  [k \in 1..Cardinality(starts) |-> AttrGroup(text, nth(k), M(text, nth(k)))]

StartsWithImages(v) == Len(v) >= 2 /\ v[1] = "images" /\ v[2] = SL

\* the HTML file a packaging call works on holds text before and after a step
TextKept(c) == /\ IsFile(fs, optimized[c]) /\ fs[optimized[c]].kind = "text"
               /\ IsFile(fs', optimized[c]) /\ fs'[optimized[c]].kind = "text"

\* C9: the relink step of package_conversion leaves every src value that
\* starts with images/ as it is, and a second application to the text it
\* wrote changes nothing.
C9_RelinkIdempotent ==
  [][\A c \in Calls :
       /\ (pc[c] = "package" /\ pc'[c] = "returned" /\ TextKept(c))
            => LET before == SrcSeq(fs[optimized[c]].text)
                   after == SrcSeq(fs'[optimized[c]].text)
               IN  /\ Len(after) = Len(before)
                   /\ \A k \in 1..Len(before) :
                        StartsWithImages(before[k]) => after[k] = before[k]
       /\ (pc[c] = "returned" /\ pc'[c] = "repackaged" /\ TextKept(c))
            => fs'[optimized[c]].text = fs[optimized[c]].text]_vars

C9_Witness ==
  /\ pc["c1"] = "repackaged" /\ IsFile(fs, optimized["c1"])
  /\ fs[optimized["c1"]].kind = "text"
  /\ \E k \in 1..Len(SrcSeq(fs[optimized["c1"]].text)) :
        SrcSeq(fs[optimized["c1"]].text)[k] = <<"images", SL, "sub", SL, "a", ".png">>
  /\ \E k \in 1..Len(SrcSeq(fs[optimized["c1"]].text)) :
        SrcSeq(fs[optimized["c1"]].text)[k] = <<"images", SL, "image1", ".png">>

\* C10: in every archive package_conversion returns, every src value of
\* the packaged HTML that is not empty names an entry of the archive under
\* images/.
C10_SrcInArchive ==
  \A c \in Calls :
     (variant = "app.py" /\ ReturnedPackage(c)
        /\ IsFile(fs, result[c]) /\ fs[result[c]].kind = "zip")
       => LET entries == fs[result[c]].entries
              html == entries[Basename(optimized[c])]
          IN  html.kind = "text"
                => \A k \in 1..Len(SrcSeq(html.text)) :
                      SrcSeq(html.text)[k] # <<>>
                        => /\ StartsWithImages(SrcSeq(html.text)[k])
                           /\ SrcSeq(html.text)[k] \in DOMAIN entries

----------------------------------------------------------------------------
(* The package of one call of src/libre_docx2html5.py.                     *)

\* the archive a call returned, while it still exists
HasPackage(c) ==
  /\ ReturnedPackage(c)
  /\ IsFile(fs, result[c])
  /\ fs[result[c]].kind = "zip"

EntryNames(c) == DOMAIN fs[result[c]].entries

\* C11: for a source document without an entry under word/media/ the call
\* returns a package, and that package contains an images/ directory
\* (an entry named images or images/), which is empty.
C11_EmptyImagesDirectory ==
  (HasPackage("c1") /\ tpc["c1"] = "sleep" /\ fs[PathA] = NoMedia)
    => /\ \E a \in EntryNames("c1") : a \in {<<"images">>, <<"images", SL>>}
       /\ \A a \in EntryNames("c1") :
            ~(Len(a) > 2 /\ Slice(a, 1, 2) = <<"images", SL>>)

IsHtmlName(a) == a # <<>> /\ Lower(a[Len(a)]) = ".html"

\* C12: the archive of a call whose rewrite succeeded holds exactly one
\* HTML file, at the archive root, which is the rewritten HTML; every other
\* entry is an image file directly under images/; the archive is not an
\* entry of itself.
C12_ArchiveLayout ==
  (HasPackage("c1") /\ tpc["c1"] = "sleep" /\ ~IsFailure(optimized["c1"]))
    => LET entries == fs[result["c1"]].entries
           pages == {a \in DOMAIN entries : IsHtmlName(a)}
       IN  /\ Cardinality(pages) = 1
           /\ \A a \in pages :
                /\ ~Contains(a, SL)
                /\ a = Basename(optimized["c1"])
                /\ entries[a] = fs[optimized["c1"]]
           /\ \A a \in (DOMAIN entries) \ pages :
                /\ Len(a) > 2
                /\ Slice(a, 1, 2) = <<"images", SL>>
                /\ ~Contains(Slice(a, 3, Len(a)), SL)
                /\ entries[a].kind = "bin"
           /\ Basename(result["c1"]) \notin DOMAIN entries

\* a step of call c in which the creation of the archive fails
ArchiveCreationFails(c) ==
  \/ pc[c] = "open_zip" /\ pc'[c] # "open_zip" /\ pc'[c] # "write_zip"
  \/ pc[c] = "write_zip" /\ pc'[c] # "write_zip" /\ pc'[c] # "schedule"

\* C13: when the creation of the archive fails, the caller receives a
\* failure value and no archive file remains in the output directory.
C13_FailedArchiveDiscarded ==
  [][ArchiveCreationFails("c1")
       => /\ pc'["c1"] = "returned"
          /\ IsFailure(result'["c1"])
          /\ ~Exists(fs', zip_filename("c1"))]_vars

\* the word/media/ files of the source of call c that are not in its images
\* folder in file system f
MissingImages(f, c) ==
  LET namelist == fs[docx_path[c]].media
  IN  {n \in 1..Len(namelist) :
         /\ IsMedia(namelist[n])
         /\ Basename(namelist[n]) # <<>>
         /\ ~Exists(f, Join(images_folder(c), Basename(namelist[n])))}

\* C15: extract_images_from_docx skips an entry whose copy fails and still
\* extracts every remaining media entry: with one failing copy at most one
\* media file is missing from the destination folder afterwards.
C15_FailedCopySkipped ==
  [][(pc["c1"] = "extract_images" /\ pc'["c1"] = "open_zip")
       => Cardinality(MissingImages(fs', "c1")) <= 1]_vars

----------------------------------------------------------------------------
(* The order of the pipeline stages, in both programs.                     *)

StageRank(label) ==
  CASE label = "idle" -> 0
    [] label = "check" -> 1
    [] label = "make_output" -> 2
    [] label = "extract_alt" -> 3
    [] label = "convert" -> 4
    [] label = "check_html" -> 5
    [] label = "optimize" -> 6
    [] label = "make_images" -> 7
    [] label = "extract_images" -> 8
    [] label = "package" -> 9
    [] label = "open_zip" -> 9
    [] label = "write_zip" -> 10
    [] label = "schedule" -> 11
    [] OTHER -> 12

\* every src value of text that is not empty starts with images/
Relinked(text) ==
  \A k \in 1..Len(SrcSeq(text)) :
     SrcSeq(text)[k] # <<>> => StartsWithImages(SrcSeq(text)[k])

\* C18: a run that returns a package has passed the stages in order (alt
\* texts, conversion, rewrite, asset extraction and relinking, packaging,
\* cleanup scheduling): stages are never taken backwards, the package is
\* returned from the cleanup-scheduling stage with the deletion task
\* started, and the HTML in the archive has relinked src references.
C18_StagesInOrder ==
  [][\A c \in Calls :
       /\ pc'[c] # pc[c] => StageRank(pc'[c]) > StageRank(pc[c])
       /\ (variant \in {"libre_docx2html5.py", "app.py"}
             /\ pc[c] # "returned" /\ pc'[c] = "returned"
             /\ result'[c] # <<>> /\ ~IsFailure(result'[c]))
            => /\ pc[c] = "schedule"
               /\ tpc'[c] = "sleep"
               /\ (IsFile(fs', result'[c]) /\ fs'[result'[c]].kind = "zip")
                    => \A a \in DOMAIN fs'[result'[c]].entries :
                          (IsHtmlName(a) /\ fs'[result'[c]].entries[a].kind = "text")
                            => Relinked(fs'[result'[c]].entries[a].text)]_vars

----------------------------------------------------------------------------
(* The start of the deletion thread.                                       *)

\* C20: in src/libre_docx2html5.py the deletion thread of a call is started
\* at most once, and only by the step that returns the package path, after
\* the archive was written; a call that fails starts none, and whatever
\* disappears from disk is removed by the thread of a call that returned a
\* package.
C20_DeletionOnlyAfterSuccess ==
  [][/\ \A c \in Calls :
          /\ (Libre /\ tpc[c] = "none" /\ tpc'[c] # "none")
               => /\ pc[c] = "schedule" /\ pc'[c] = "returned"
                  /\ result'[c] = zip_filename(c)
                  /\ ~IsFailure(result'[c])
          /\ (Libre /\ tpc[c] # "none") => tpc'[c] # "none" /\ pc'[c] = "returned"
          /\ (Libre /\ tpc'[c] = "sleep") => tpc[c] \in {"none", "sleep"}
          /\ (Libre /\ pc'[c] \in {"returned", "raised"}
                /\ (pc'[c] = "raised" \/ IsFailure(result'[c])))
               => tpc'[c] = "none"
      /\ (Libre /\ \E q \in DOMAIN fs : q \notin DOMAIN fs')
           => \E d \in Calls : /\ tpc[d] \in {"rmtree", "remove"}
                                /\ tpc'[d] # tpc[d]
                                /\ ReturnedPackage(d)]_vars

\* a call failed after its output directory was made; the directory and the
\* source are still there when the delay has passed
C20_Witness ==
  \E c \in Calls :
     /\ Libre /\ pc[c] = "returned" /\ IsFailure(result[c])
     /\ current_date[c] # "" /\ tpc[c] = "none"
     /\ Exists(fs, output_folder(c)) /\ Exists(fs, docx_path[c])
     /\ now >= delay
     /\ \A d \in Calls : tpc[d] = "none"

----------------------------------------------------------------------------
(* The archive of src/app.py.                                              *)

\* C19: in src/app.py the path package_conversion returns is an archive
\* that is another file than the rewritten HTML file, the HTML file is
\* still on disk as text, and the archive holds that relinked HTML as an
\* entry.
C19_ArchiveBesideHtml ==
  \A c \in Calls :
     (variant = "app.py" /\ ReturnedPackage(c))
       => /\ result[c] # optimized[c]
          /\ IsFile(fs, optimized[c]) /\ fs[optimized[c]].kind = "text"
          /\ IsFile(fs, result[c]) /\ fs[result[c]].kind = "zip"
          /\ Basename(optimized[c]) \in DOMAIN fs[result[c]].entries
          /\ fs[result[c]].entries[Basename(optimized[c])] = fs[optimized[c]]
          /\ Relinked(fs[optimized[c]].text)

----------------------------------------------------------------------------
(* The lookup of an image's description.                                   *)

\* the description the three-step lookup yields for a tag
LookedUp(tag, index) ==
  IF NameOf(tag) \in DOMAIN index THEN index[NameOf(tag)]
  ELSE IF SrcBasename(tag) \in DOMAIN index THEN index[SrcBasename(tag)]
  ELSE DefaultDescription

\* C14: the description optimize_html gives a tag is the index entry for
\* the tag's name; when there is none (name absent or not in the index),
\* the index entry for the basename of the tag's src; when there is none
\* either, the default string.  (Descriptions holding a double quote or a
\* backslash are left aside here.)
C14_ThreeStepLookup ==
  Rewritten =>
    LET expected == LookedUp(PageIn, alt_texts["c1"])
    IN  (~Contains(expected, Q) /\ ~Contains(expected, BS))
          => AttrValue(PageOut, "alt=") = <<expected>>

----------------------------------------------------------------------------
(* optimize_html on pages with heads, bodies and tables of several shapes. *)

ConverterTitle == <<"<title", GT, "converter-title", "</title", GT>>
PageHeads ==
  {<<>>,
   <<"<head", GT>> \o ConverterTitle \o <<"</head", GT>>,
   <<"<HEAD", GT>> \o ConverterTitle \o <<"</HEAD", GT>>,
   <<"<Head", GT>> \o ConverterTitle \o <<"</Head", GT>>,
   <<"<head", SP, "profile=", Q, "x", Q, GT>> \o ConverterTitle \o <<"</head", GT>>}
PageBodies ==
  {<<"<body", GT>>,
   <<"<body", SP, "class=", Q, "a", Q, GT>>,
   <<"<body", SP, "class=", Q, "container", Q, GT>>}
Cell(inner) == <<"<tr", GT, "<td", GT>> \o inner \o <<"</td", GT, "</tr", GT>>
Table(attrs, inner) == <<"<table">> \o attrs \o <<GT>> \o Cell(inner) \o <<"</table", GT>>
PageTables ==
  {<<>>,
   Table(<<>>, <<"one">>),
   Table(<<SP, "border=", Q, "1", Q>>, <<"one">>),
   Table(<<>>, <<"one">>) \o <<"<p", GT>> \o Table(<<>>, <<"two">>),
   Table(<<>>, Table(<<>>, <<"inner">>)),
   Table(<<>>, Table(<<>>, <<"inner">>)) \o Table(<<>>, <<"two">>),
   Table(<<>>, <<"one">>) \o <<"<table", GT, "<tr", GT>>}
MarkupPages ==
  {<<"<html", GT>> \o h \o b \o t \o <<"</body", GT, "</html", GT>> :
     h \in PageHeads, b \in PageBodies, t \in PageTables}

PageInit ==
  /\ variant = "libre_docx2html5.py"
  /\ now = 0
  /\ fs = [p \in {<<"up">>, PathA, LIBREOFFICE_PATH, <<"up", SL, "a", "_", "0">>} |->
             IF p = PathA THEN Document
             ELSE IF p = LIBREOFFICE_PATH THEN [kind |-> "exe"]
             ELSE [kind |-> "dir"]]
  /\ pc = [c \in Calls |-> IF c = "c1" THEN "extract_alt" ELSE "idle"]
  /\ docx_path = [c \in Calls |-> IF c = "c1" THEN PathA ELSE <<>>]
  /\ current_date = [c \in Calls |-> IF c = "c1" THEN "0" ELSE ""]
  /\ alt_texts = [c \in Calls |-> <<>>]
  /\ optimized = [c \in Calls |-> <<>>]
  /\ result = [c \in Calls |-> <<>>]
  /\ tpc = [c \in Calls |-> "none"]
  /\ wake = [c \in Calls |-> 0]
  /\ targs = [c \in Calls |-> [folder_path |-> <<>>, input_file |-> <<>>]]

PageNext ==
  \/ ExtractAlt("c1")
  \/ ConvertWrites("c1", MarkupPages)
  \/ CheckHtml("c1")
  \/ Optimize("c1")

SpecPage == PageInit /\ [][PageNext]_vars

\* the text optimize_html read and the text it wrote
TextIn == fs[html_file("c1")].text
TextOut == fs[optimized["c1"]].text

\* the number of positions i..j of s holding tok
Count(s, tok, i, j) == Cardinality({k \in i..j : s[k] = tok})

\* the position of the closing tag that closes the element opened at j
\* (0 when it is not closed)
ClosingOf(s, j, open, close) ==
  LET K == {k \in (j + 1)..Len(s) :
              s[k] = close /\ Count(s, open, j, k) = Count(s, close, j, k)}
  IN  IF K = {} THEN 0 ELSE CHOOSE k \in K : \A m \in K : k <= m

WrapperOpen == <<"<div", SP, "class=", Q, "table-responsive", Q, GT>>
IsWrapperAt(s, i) ==
  i + Len(WrapperOpen) - 1 <= Len(s) /\ SubSeq(s, i, i + Len(WrapperOpen) - 1) = WrapperOpen

\* C16: in the text optimize_html writes, every wrapper
\* <div class="table-responsive"> starts directly before a <table> opening
\* tag and ends directly after the </table> that closes that same table;
\* and every closed table that is not inside another table has its wrapper.
C16_WrappersEncloseTables ==
  Rewritten =>
    /\ \A i \in 1..Len(TextOut) :
         IsWrapperAt(TextOut, i)
           => LET j == i + Len(WrapperOpen)
                  e == ClosingOf(TextOut, j, "<table", "</table")
              IN  /\ j <= Len(TextOut) /\ TextOut[j] = "<table"
                  /\ e > 0
                  /\ ClosingOf(TextOut, i, "<div", "</div") = e + 2
    /\ \A j \in 1..Len(TextOut) :
         (/\ TextOut[j] = "<table"
          /\ Count(TextOut, "<table", 1, j - 1) = Count(TextOut, "</table", 1, j - 1)
          /\ ClosingOf(TextOut, j, "<table", "</table") > 0)
           => j > Len(WrapperOpen) /\ IsWrapperAt(TextOut, j - Len(WrapperOpen))

\* the opening tag of a head element, in any letter case
HeadOpenings == {"<head", "<HEAD", "<Head"}

\* C17: whenever the page has a head element, written in any letter case
\* or with attributes on its opening tag, the text optimize_html writes
\* holds the responsive head and nothing of the converter's head.
C17_HeadReplaced ==
  (Rewritten /\ \E i \in 1..Len(TextIn) : TextIn[i] \in HeadOpenings)
    => /\ ~Contains(TextOut, "converter-title")
       /\ Count(TextOut, "<meta viewport>", 1, Len(TextOut)) = 1

----------------------------------------------------------------------------
(* The reach of the relink step of src/app.py.                             *)

\* C21: the text package_conversion writes back has the src of every tag
\* relinked, whatever the tag and also when the value is an external URL:
\* it has as many src values as the text read, every one that is not empty
\* starts with images/, and it is what the HTML file holds afterwards
\* (as long as that file is still text).
C21_EverySrcRelinked ==
  [][\A c \in Calls :
       (variant = "app.py" /\ pc[c] = "package" /\ pc'[c] = "returned")
         => LET before == fs[optimized[c]].text
                written == Relink(before)
            IN  /\ Len(SrcSeq(written)) = Len(SrcSeq(before))
                /\ Relinked(written)
                /\ (IsFile(fs', optimized[c]) /\ fs'[optimized[c]].kind = "text")
                     => fs'[optimized[c]].text = written]_vars

\* the page optimize_html wrote has been packaged: the src of the analytics
\* script of its head now names a file under images/
C21_Witness ==
  /\ variant = "app.py" /\ pc["c1"] = "returned"
  /\ IsFile(fs, optimized["c1"]) /\ fs[optimized["c1"]].kind = "text"
  /\ Contains(fs[optimized["c1"]].text, "<script")
  /\ \E k \in 1..Len(SrcSeq(fs[optimized["c1"]].text)) :
        SrcSeq(fs[optimized["c1"]].text)[k] = <<"images", SL, "js?id=G-P8LYBP9EDY">>

====
